---- MODULE Spec2Model ----
(***************************************************************************)
(* A model of the labs API: the assembly of the FastAPI application        *)
(* (labs/api.py), its two lifecycle hooks around the task broker, the      *)
(* websocket echo handler, the root endpoint, and the three diagnostic     *)
(* endpoints of the "ext" router (labs/acts/ext/scenes/__init__.py).       *)
(*                                                                         *)
(* The collaborators the handlers call (the database session scope, the    *)
(* logger, the broker client, the websocket transport) are the             *)
(* environment: each is reachable or not, and a call on an unreachable     *)
(* collaborator raises.                                                    *)
(***************************************************************************)
EXTENDS Integers, Sequences, FiniteSets, TLC

\* Bounds of the model.
MaxFrames == 2      \* text frames received over all websocket connections
MaxRequests == 2    \* HTTP requests dispatched
MaxRoutes == 2      \* length of an arbitrary route table (SpecNorm)
MaxPasses == 3      \* runs of the normalization pass (SpecNorm)

Conns == {"c1", "c2"}               \* websocket connections
Texts == {"hi", "yo"}               \* texts of received frames
RootPaths == {"", "/api"}         \* request.scope.get("root_path")
Names == {"f", "g"}                 \* route names of an arbitrary route table

None == "None"
HTTP_200_OK == 200
module_name == "labs.api"

VARIABLES
  asm,           \* the next module-level statement of api.py to execute
  routes,        \* app.routes
  on_event,      \* the lifecycle events a hook is registered for
  passes,        \* runs of use_route_names_as_operation_ids so far
  phase,         \* the server: import, startup, serving, shutdown, stopped, aborted
  broker,        \* the process-wide broker client
  hook,          \* position of each lifecycle hook
  dbUp,          \* the database is reachable
  queueUp,       \* the queue behind the broker is reachable
  loggerUp,      \* the logger's sink is reachable
  ws,            \* per connection: the handler's position and the frames
  requests,      \* HTTP requests answered so far
  lastResponse,  \* the response to the latest HTTP request
  okLogs,        \* /log requests answered 200 so far
  loggerEvents   \* the events the logger has recorded

vars == <<asm, routes, on_event, passes, phase, broker, hook, dbUp, queueUp,
          loggerUp, ws, requests, lastResponse, okLogs, loggerEvents>>

asmVars == <<asm, routes, on_event, passes>>
envVars == <<dbUp, queueUp, loggerUp>>
httpVars == <<requests, lastResponse, okLogs, loggerEvents>>
lifeVars == <<phase, broker, hook>>

----------------------------------------------------------------------------
(* Routes *)

\* A route added by @router.get / @app.get: its name is the handler's
\* declared name, and no operation_id is passed.
APIRoute(path, endpoint) ==
  [kind |-> "APIRoute", path |-> path, name |-> endpoint,
   methods |-> {"GET"}, operation_id |-> None]

\* The route added by @app.websocket: it has no operation identifier.
APIWebSocketRoute(path, endpoint) ==
  [kind |-> "APIWebSocketRoute", path |-> path, name |-> endpoint]

\* The routes of the "ext" router, in the order of their decorators.
router ==
  << APIRoute("/echo", "echo"),
     APIRoute("/healthcheck", "healthcheck"),
     APIRoute("/log", "log") >>

\* The root router composes the sub-routers; "ext" is the one given here.
router_root == router

\* Variant: the pass appends the name to an identifier that is already set.
use_route_names_appending(rs) ==
  [i \in 1..Len(rs) |->
     IF rs[i].kind = "APIRoute"
       THEN [rs[i] EXCEPT !.operation_id =
               IF @ = None THEN rs[i].name ELSE @ \o "_" \o rs[i].name]
       ELSE rs[i]]

\* for route in app.routes: if isinstance(route, APIRoute): ...
use_route_names_as_operation_ids(rs) ==
  [i \in 1..Len(rs) |->
     IF rs[i].kind = "APIRoute"
       THEN [rs[i] EXCEPT !.operation_id = rs[i].name]
       ELSE rs[i]]

----------------------------------------------------------------------------
(* Application assembly: the module-level statements of api.py, in order *)

register_websocket ==
  /\ asm = "websocket"
  /\ routes' = Append(routes, APIWebSocketRoute("/ws", "websocket_endpoint"))
  /\ asm' = "include_router"
  /\ UNCHANGED <<on_event, passes, lifeVars, envVars, ws, httpVars>>

include_router ==
  /\ asm = "include_router"
  /\ routes' = routes \o router_root
  /\ asm' = "on_startup"
  /\ UNCHANGED <<on_event, passes, lifeVars, envVars, ws, httpVars>>

register_startup ==
  /\ asm = "on_startup"
  /\ on_event' = on_event \cup {"startup"}
  /\ asm' = "on_shutdown"
  /\ UNCHANGED <<routes, passes, lifeVars, envVars, ws, httpVars>>

register_shutdown ==
  /\ asm = "on_shutdown"
  /\ on_event' = on_event \cup {"shutdown"}
  /\ asm' = "root"
  /\ UNCHANGED <<routes, passes, lifeVars, envVars, ws, httpVars>>

\* Variant: the pass is called before the root route is added.
register_root_after_pass ==
  /\ asm = "root"
  /\ routes' = Append(use_route_names_as_operation_ids(routes),
                      APIRoute("/", "root"))
  /\ passes' = passes + 1
  /\ asm' = "done"
  /\ UNCHANGED <<on_event, lifeVars, envVars, ws, httpVars>>

register_root ==
  /\ asm = "root"
  /\ routes' = Append(routes, APIRoute("/", "root"))
  /\ asm' = "normalize"
  /\ UNCHANGED <<on_event, passes, lifeVars, envVars, ws, httpVars>>

\* The call on the last line of api.py.
run_normalizer ==
  /\ asm = "normalize"
  /\ routes' = use_route_names_as_operation_ids(routes)
  /\ passes' = passes + 1
  /\ asm' = "done"
  /\ UNCHANGED <<on_event, lifeVars, envVars, ws, httpVars>>

\* A further call of the pass on the assembled application.
rerun_normalizer ==
  /\ asm = "done"
  /\ passes < MaxPasses
  /\ routes' = use_route_names_as_operation_ids(routes)
  /\ passes' = passes + 1
  /\ UNCHANGED <<asm, on_event, lifeVars, envVars, ws, httpVars>>

----------------------------------------------------------------------------
(* Collaborators *)

\* A collaborator becomes reachable or unreachable.
EnvChange ==
  /\ phase \in {"import", "startup", "serving", "shutdown"}
  /\ \/ dbUp' = ~dbUp /\ UNCHANGED <<queueUp, loggerUp>>
     \/ queueUp' = ~queueUp /\ UNCHANGED <<dbUp, loggerUp>>
     \/ loggerUp' = ~loggerUp /\ UNCHANGED <<dbUp, queueUp>>
  /\ UNCHANGED <<asmVars, lifeVars, ws, httpVars>>

\* Entering "async with session_context()" succeeds iff the database is
\* reachable; leaving it releases the session.
session_context_enters == dbUp

\* logger.emit records the event, or raises when the sink is unavailable.
logger_emits == loggerUp

\* broker.startup() / broker.shutdown() complete, or raise when the queue
\* is unreachable.
broker_call_succeeds == queueUp

----------------------------------------------------------------------------
(* Lifecycle hooks *)

HandlersEnded == \A c \in Conns : ws[c].pc \in {"none", "raised"}

\* Variant: the hook starts the broker whatever the worker flag says.
app_startup_unguarded ==
  /\ asm = "done" /\ phase = "import" /\ "startup" \in on_event
  /\ hook.startup = "pending"
  /\ phase' = "startup"
  /\ broker' = [broker EXCEPT !.startup_calls = @ + 1, !.state = "starting"]
  /\ hook' = [hook EXCEPT !.startup = "awaiting"]
  /\ UNCHANGED <<asmVars, envVars, ws, httpVars>>

\* app_startup up to its await: "if not broker.is_worker_process:
\* await broker.startup()".
app_startup ==
  /\ asm = "done" /\ phase = "import" /\ "startup" \in on_event
  /\ hook.startup = "pending"
  /\ phase' = "startup"
  /\ IF ~broker.is_worker_process
       THEN /\ broker' = [broker EXCEPT !.startup_calls = @ + 1,
                                        !.state = "starting"]
            /\ hook' = [hook EXCEPT !.startup = "awaiting"]
       ELSE /\ broker' = broker
            /\ hook' = [hook EXCEPT !.startup = "done"]
  /\ UNCHANGED <<asmVars, envVars, ws, httpVars>>

\* Variant: the hook catches the failure of broker.startup() and returns.
app_startup_resume_swallow ==
  /\ hook.startup = "awaiting"
  /\ broker' = [broker EXCEPT !.state =
                  IF broker_call_succeeds THEN "started" ELSE "startup_failed"]
  /\ hook' = [hook EXCEPT !.startup = "done"]
  /\ UNCHANGED <<asmVars, phase, envVars, ws, httpVars>>

\* The await of broker.startup() ends: the hook returns, or the failure
\* leaves the hook uncaught.
app_startup_resume ==
  /\ hook.startup = "awaiting"
  /\ IF broker_call_succeeds
       THEN /\ broker' = [broker EXCEPT !.state = "started"]
            /\ hook' = [hook EXCEPT !.startup = "done"]
       ELSE /\ broker' = [broker EXCEPT !.state = "startup_failed"]
            /\ hook' = [hook EXCEPT !.startup = "raised"]
  /\ UNCHANGED <<asmVars, phase, envVars, ws, httpVars>>

\* The server starts dispatching once the startup hook has returned, and
\* gives up when it has raised.
lifespan_startup ==
  /\ phase = "startup"
  /\ \/ hook.startup = "done" /\ phase' = "serving"
     \/ hook.startup = "raised" /\ phase' = "aborted"
  /\ UNCHANGED <<asmVars, broker, hook, envVars, ws, httpVars>>

\* app_shutdown up to its await; the server runs it when it stops serving,
\* after the open connections have been torn down.
app_shutdown ==
  /\ phase = "serving" /\ "shutdown" \in on_event
  /\ hook.shutdown = "pending"
  /\ HandlersEnded
  /\ phase' = "shutdown"
  /\ IF ~broker.is_worker_process
       THEN /\ broker' = [broker EXCEPT !.shutdown_calls = @ + 1,
                                        !.state = "stopping"]
            /\ hook' = [hook EXCEPT !.shutdown = "awaiting"]
       ELSE /\ broker' = broker
            /\ hook' = [hook EXCEPT !.shutdown = "done"]
  /\ UNCHANGED <<asmVars, envVars, ws, httpVars>>

app_shutdown_resume ==
  /\ hook.shutdown = "awaiting"
  /\ IF broker_call_succeeds
       THEN /\ broker' = [broker EXCEPT !.state = "stopped"]
            /\ hook' = [hook EXCEPT !.shutdown = "done"]
       ELSE /\ broker' = [broker EXCEPT !.state = "shutdown_failed"]
            /\ hook' = [hook EXCEPT !.shutdown = "raised"]
  /\ UNCHANGED <<asmVars, phase, envVars, ws, httpVars>>

lifespan_shutdown ==
  /\ phase = "shutdown"
  /\ hook.shutdown \in {"done", "raised"}
  /\ phase' = "stopped"
  /\ UNCHANGED <<asmVars, broker, hook, envVars, ws, httpVars>>

----------------------------------------------------------------------------
(* HTTP handlers *)

NoResponse == [route |-> "none", status |-> 0, body |-> [none |-> TRUE]]
OkBody == [message |-> "ok"]
EchoBody == [message |-> "Hello, world!"]
FollowEvent == [tag |-> "follow", payload |-> [from |-> "userA", to |-> "userB"]]

\* The server dispatches a request to a handler only while it is serving.
Dispatch == phase = "serving" /\ requests < MaxRequests

\* The handler returned: the framework answers with its result.
Respond(route, status, body) ==
  /\ requests' = requests + 1
  /\ lastResponse' = [route |-> route, status |-> status, body |-> body]
  /\ okLogs' = IF route = "log" /\ status = 200 THEN okLogs + 1 ELSE okLogs

\* The handler raised: the framework's default error response.
ServerError(route) ==
  Respond(route, 500, [error |-> "Internal Server Error"])

echo ==
  /\ Dispatch
  /\ Respond("echo", 200, EchoBody)
  /\ UNCHANGED <<asmVars, lifeVars, envVars, ws, loggerEvents>>

\* Variant: the handler answers ok whether or not the scope was entered.
healthcheck_swallow ==
  /\ Dispatch
  /\ Respond("healthcheck", 200, OkBody)
  /\ UNCHANGED <<asmVars, lifeVars, envVars, ws, loggerEvents>>

healthcheck ==
  /\ Dispatch
  /\ IF session_context_enters
       THEN Respond("healthcheck", 200, OkBody)
       ELSE ServerError("healthcheck")
  /\ UNCHANGED <<asmVars, lifeVars, envVars, ws, loggerEvents>>

\* Variant: the handler emits the event twice.
log_twice ==
  /\ Dispatch
  /\ IF logger_emits
       THEN /\ loggerEvents' = Append(Append(loggerEvents, FollowEvent),
                                      FollowEvent)
            /\ Respond("log", 200, OkBody)
       ELSE /\ loggerEvents' = loggerEvents
            /\ ServerError("log")
  /\ UNCHANGED <<asmVars, lifeVars, envVars, ws>>

log ==
  /\ Dispatch
  /\ IF logger_emits
       THEN /\ loggerEvents' = Append(loggerEvents, FollowEvent)
            /\ Respond("log", 200, OkBody)
       ELSE /\ loggerEvents' = loggerEvents
            /\ ServerError("log")
  /\ UNCHANGED <<asmVars, lifeVars, envVars, ws>>

root ==
  /\ Dispatch
  /\ \E rp \in RootPaths :
       Respond("root", HTTP_200_OK,
               [message |-> "Welcome to the " \o module_name \o " API",
                root_path |-> rp])
  /\ UNCHANGED <<asmVars, lifeVars, envVars, ws, loggerEvents>>

----------------------------------------------------------------------------
(* The websocket handler *)

NoConn == [pc |-> "none", transport |-> "none", received |-> <<>>,
           sent |-> <<>>, data |-> None]

RECURSIVE FramesIn(_)
FramesIn(S) ==
  IF S = {} THEN 0
  ELSE LET c == CHOOSE x \in S : TRUE
       IN Len(ws[c].received) + FramesIn(S \ {c})

Reply(data) == "Message text was: " \o data

\* The server dispatches an incoming connection to websocket_endpoint.
websocket_connect(c) ==
  /\ phase = "serving"
  /\ ws[c].pc = "none"
  /\ ws' = [ws EXCEPT ![c].pc = "accept", ![c].transport = "connecting"]
  /\ UNCHANGED <<asmVars, lifeVars, envVars, httpVars>>

\* await websocket.accept()
websocket_accept(c) ==
  /\ ws[c].pc = "accept"
  /\ ws' = [ws EXCEPT ![c].pc = "receive", ![c].transport = "open"]
  /\ UNCHANGED <<asmVars, lifeVars, envVars, httpVars>>

\* The peer goes away, or the transport errors.
transport_close(c) ==
  /\ ws[c].transport = "open"
  /\ ws[c].pc \in {"receive", "send"}
  /\ ws' = [ws EXCEPT ![c].transport = "closed"]
  /\ UNCHANGED <<asmVars, lifeVars, envVars, httpVars>>

\* Variant: the received text is kept in one variable shared by all handlers.
websocket_receive_text_shared(c) ==
  /\ ws[c].pc = "receive"
  /\ IF ws[c].transport = "open"
       THEN /\ FramesIn(Conns) < MaxFrames
            /\ \E t \in Texts :
                 ws' = [d \in Conns |->
                          IF d = c
                            THEN [ws[d] EXCEPT !.received = Append(@, t),
                                               !.data = t, !.pc = "send"]
                            ELSE [ws[d] EXCEPT !.data = t]]
       ELSE ws' = [ws EXCEPT ![c].pc = "raised"]
  /\ UNCHANGED <<asmVars, lifeVars, envVars, httpVars>>

\* data = await websocket.receive_text()
websocket_receive_text(c) ==
  /\ ws[c].pc = "receive"
  /\ IF ws[c].transport = "open"
       THEN /\ FramesIn(Conns) < MaxFrames
            /\ \E t \in Texts :
                 ws' = [ws EXCEPT ![c].received = Append(@, t),
                                  ![c].data = t,
                                  ![c].pc = "send"]
       ELSE ws' = [ws EXCEPT ![c].pc = "raised"]
  /\ UNCHANGED <<asmVars, lifeVars, envVars, httpVars>>

\* Variant: the text is sent back as it came, without the prefix.
websocket_send_text_raw(c) ==
  /\ ws[c].pc = "send"
  /\ IF ws[c].transport = "open"
       THEN ws' = [ws EXCEPT ![c].sent = Append(@, ws[c].data),
                             ![c].pc = "receive"]
       ELSE ws' = [ws EXCEPT ![c].pc = "raised"]
  /\ UNCHANGED <<asmVars, lifeVars, envVars, httpVars>>

\* Variant: the handler closes the connection and returns after a reply.
websocket_send_text_close(c) ==
  /\ ws[c].pc = "send"
  /\ IF ws[c].transport = "open"
       THEN ws' = [ws EXCEPT ![c].sent = Append(@, Reply(ws[c].data)),
                             ![c].pc = "returned",
                             ![c].transport = "closed"]
       ELSE ws' = [ws EXCEPT ![c].pc = "raised"]
  /\ UNCHANGED <<asmVars, lifeVars, envVars, httpVars>>

\* await websocket.send_text(f"Message text was: {data}")
websocket_send_text(c) ==
  /\ ws[c].pc = "send"
  /\ IF ws[c].transport = "open"
       THEN ws' = [ws EXCEPT ![c].sent = Append(@, Reply(ws[c].data)),
                             ![c].pc = "receive"]
       ELSE ws' = [ws EXCEPT ![c].pc = "raised"]
  /\ UNCHANGED <<asmVars, lifeVars, envVars, httpVars>>

----------------------------------------------------------------------------
(* Specifications *)

Init ==
  /\ asm = "websocket"
  /\ routes = <<>>
  /\ on_event = {}
  /\ passes = 0
  /\ phase = "import"
  /\ \E w \in BOOLEAN :
       broker = [is_worker_process |-> w, state |-> "new",
                 startup_calls |-> 0, shutdown_calls |-> 0]
  /\ hook = [startup |-> "pending", shutdown |-> "pending"]
  /\ dbUp \in BOOLEAN
  /\ queueUp \in BOOLEAN
  /\ loggerUp \in BOOLEAN
  /\ ws = [c \in Conns |-> NoConn]
  /\ requests = 0
  /\ lastResponse = NoResponse
  /\ okLogs = 0
  /\ loggerEvents = <<>>

Next ==
  \/ register_websocket
  \/ include_router
  \/ register_startup
  \/ register_shutdown
  \/ register_root
  \/ run_normalizer
  \/ EnvChange
  \/ app_startup
  \/ app_startup_resume
  \/ lifespan_startup
  \/ app_shutdown
  \/ app_shutdown_resume
  \/ lifespan_shutdown
  \/ echo
  \/ healthcheck
  \/ log
  \/ root
  \/ \E c \in Conns : websocket_connect(c)
  \/ \E c \in Conns : websocket_accept(c)
  \/ \E c \in Conns : transport_close(c)
  \/ \E c \in Conns : websocket_receive_text(c)
  \/ \E c \in Conns : websocket_send_text(c)

Spec == Init /\ [][Next]_vars

\* The normalization pass on an arbitrary route table.
RouteUniverse ==
  {[kind |-> "APIRoute", path |-> "/p", name |-> n, methods |-> {"GET"},
    operation_id |-> o] : n \in Names, o \in Names \cup {None}}
  \cup {APIWebSocketRoute("/ws", n) : n \in Names}
  \cup {[kind |-> "Route", path |-> "/openapi.json", name |-> n] : n \in Names}

InitNorm ==
  /\ asm = "normalize"
  /\ routes \in UNION {[1..k -> RouteUniverse] : k \in 0..MaxRoutes}
  /\ on_event = {"startup", "shutdown"}
  /\ passes = 0
  /\ phase = "import"
  /\ broker = [is_worker_process |-> FALSE, state |-> "new",
               startup_calls |-> 0, shutdown_calls |-> 0]
  /\ hook = [startup |-> "pending", shutdown |-> "pending"]
  /\ dbUp = TRUE /\ queueUp = TRUE /\ loggerUp = TRUE
  /\ ws = [c \in Conns |-> NoConn]
  /\ requests = 0
  /\ lastResponse = NoResponse
  /\ okLogs = 0
  /\ loggerEvents = <<>>

NextNorm == run_normalizer \/ rerun_normalizer

SpecNorm == InitNorm /\ [][NextNorm]_vars

----------------------------------------------------------------------------
(* Properties *)

Prefix == "Message text was: "

\* The replies on c are the prefixed copies of the first frames received on c.
RepliesMatch(c) ==
  /\ Len(ws[c].sent) <= Len(ws[c].received)
  /\ \A i \in 1..Len(ws[c].sent) : ws[c].sent[i] = Prefix \o ws[c].received[i]

\* C1, as claimed: on every connection the handler has sent exactly one
\* reply per received frame, each the prefixed text of that frame and in
\* receipt order, the only pending reply being the one the handler is
\* about to send.
C1_ExactlyOneReplyPerFrame ==
  \A c \in Conns :
    /\ RepliesMatch(c)
    /\ ws[c].pc = "send" => Len(ws[c].received) = Len(ws[c].sent) + 1
    /\ ws[c].pc # "send" => Len(ws[c].received) = Len(ws[c].sent)

\* C1, amended: the replies are the prefixed texts of the received frames
\* in receipt order, one reply per frame, each sent before the next frame
\* is received; only the reply to the last received frame may be missing,
\* and only when the handler is about to send it or the transport failed.
C1_RepliesInReceiptOrder ==
  \A c \in Conns :
    /\ RepliesMatch(c)
    /\ ws[c].pc = "send" => Len(ws[c].received) = Len(ws[c].sent) + 1
    /\ ws[c].pc = "raised" =>
         Len(ws[c].received) - Len(ws[c].sent) \in {0, 1}
    /\ ws[c].pc \notin {"send", "raised"} =>
         Len(ws[c].received) = Len(ws[c].sent)

C1_Witness ==
  \E c \in Conns :
    /\ ws[c].received = <<"hi", "yo">>
    /\ Len(ws[c].sent) = 2

HealthcheckAnswered ==
  requests' = requests + 1 /\ lastResponse'.route = "healthcheck"

LogAnswered ==
  requests' = requests + 1 /\ lastResponse'.route = "log"

\* C3: every /log request answered 200 {"message": "ok"} has recorded
\* exactly one event, "follow" with payload {from: userA, to: userB}; after
\* k such requests, and any other requests, the logger holds exactly k
\* events; a failing emit gives the server error and no ok response.
C3_OneEventPerLog ==
  /\ [](/\ Len(loggerEvents) = okLogs
        /\ \A i \in 1..Len(loggerEvents) :
             loggerEvents[i] =
               [tag |-> "follow", payload |-> [from |-> "userA", to |-> "userB"]])
  /\ [][/\ LogAnswered =>
             IF loggerUp
               THEN /\ lastResponse'.status = 200
                    /\ lastResponse'.body = [message |-> "ok"]
                    /\ Len(loggerEvents') = Len(loggerEvents) + 1
               ELSE /\ lastResponse'.status = 500
                    /\ loggerEvents' = loggerEvents
        /\ ~LogAnswered => loggerEvents' = loggerEvents]_vars

C3_Witness ==
  /\ okLogs = 1
  /\ Len(loggerEvents) = 1
  /\ requests = 2
  /\ lastResponse.route = "echo"

\* C4: with is_worker_process false each hook calls its broker method
\* exactly once and has not returned before the call completed; with the
\* flag true no broker method is called and the broker is left as it was.
C4_HooksGuardBroker ==
  /\ broker.is_worker_process =>
       /\ broker.startup_calls = 0 /\ broker.shutdown_calls = 0
       /\ broker.state = "new"
  /\ ~broker.is_worker_process =>
       /\ broker.startup_calls = (IF hook.startup = "pending" THEN 0 ELSE 1)
       /\ broker.shutdown_calls = (IF hook.shutdown = "pending" THEN 0 ELSE 1)
       /\ hook.startup = "done" =>
            broker.state \in {"started", "stopping", "stopped", "shutdown_failed"}
       /\ hook.startup = "awaiting" <=> broker.state = "starting"
       /\ hook.shutdown = "done" => broker.state = "stopped"
       /\ hook.shutdown = "awaiting" <=> broker.state = "stopping"

C4_Witness ==
  /\ ~broker.is_worker_process
  /\ hook.startup = "done"
  /\ hook.shutdown = "done"

\* C5: the normalization pass is idempotent: a run of the pass after the
\* first leaves every route, and so every operation identifier, as it was.
C5_PassIdempotent ==
  [][passes >= 1 /\ passes' = passes + 1 => routes' = routes]_vars

C5_Witness ==
  /\ passes = 2
  /\ \E i \in 1..Len(routes) :
       routes[i].kind = "APIRoute" /\ routes[i].operation_id = routes[i].name
  /\ \E i \in 1..Len(routes) : routes[i].kind # "APIRoute"

\* C6: once assembly has finished every HTTP route (root, echo,
\* healthcheck, log) has its handler's name as operation identifier; the
\* pass leaves the websocket route and every other attribute untouched.
C6_OperationIdsAfterAssembly ==
  /\ [](asm = "done" =>
          /\ Len(routes) = 5
          /\ \A i \in 1..Len(routes) :
               routes[i].kind = "APIRoute" =>
                 routes[i].operation_id = routes[i].name
          /\ \A h \in {"echo", "healthcheck", "log"} :
               \E i \in 1..Len(routes) :
                 /\ routes[i].kind = "APIRoute"
                 /\ routes[i].path = "/" \o h
                 /\ routes[i].operation_id = h
          /\ \E i \in 1..Len(routes) :
               /\ routes[i].kind = "APIRoute"
               /\ routes[i].path = "/"
               /\ routes[i].operation_id = "root"
          /\ \E i \in 1..Len(routes) :
               routes[i] = [kind |-> "APIWebSocketRoute", path |-> "/ws",
                            name |-> "websocket_endpoint"])
  /\ [][passes' # passes =>
          /\ asm = "normalize"
          /\ Len(routes') = Len(routes)
          /\ \A i \in 1..Len(routes) :
               IF routes[i].kind = "APIRoute"
                 THEN routes'[i] =
                        [routes[i] EXCEPT !.operation_id = routes'[i].operation_id]
                 ELSE routes'[i] = routes[i]
          /\ UNCHANGED <<on_event, lifeVars, ws, httpVars>>]_vars

C6_Witness ==
  /\ asm = "done"
  /\ passes = 1
  /\ phase = "serving"

\* C7: /healthcheck answers ok only when the database, the queue and the
\* logger are all reachable.
C7_HealthcheckChecksAll ==
  [][HealthcheckAnswered /\ lastResponse'.status = 200 =>
       dbUp /\ queueUp /\ loggerUp]_vars

\* C8: the handler accepts before it receives or sends; once open it leaves
\* the receive/send loop only by a receive or send raising on a closed
\* transport; it never closes the transport itself, and it sends nothing
\* after that failure.
C8_LoopEndsOnlyOnTransportFailure ==
  /\ [](\A c \in Conns :
          /\ ws[c].pc \in {"none", "accept", "receive", "send", "raised"}
          /\ ws[c].pc \in {"receive", "send"} =>
               ws[c].transport \in {"open", "closed"}
          /\ ws[c].pc \in {"none", "accept"} =>
               ws[c].received = <<>> /\ ws[c].sent = <<>>)
  /\ [][\A c \in Conns :
          /\ ws[c].pc = "accept" /\ ws'[c].pc # "accept" =>
               ws'[c].pc = "receive" /\ ws'[c].transport = "open"
          /\ ws[c].pc \in {"receive", "send"} /\ ws'[c].pc \notin {"receive", "send"} =>
               ws'[c].pc = "raised" /\ ws[c].transport = "closed"
          /\ ws[c].transport = "open" /\ ws'[c].transport # "open" =>
               ws'[c] = [ws[c] EXCEPT !.transport = "closed"]
          /\ ws[c].pc = "raised" => ws'[c] = ws[c]]_vars

C8_Witness ==
  \E c \in Conns :
    /\ ws[c].pc = "raised"
    /\ Len(ws[c].sent) = 1
    /\ Len(ws[c].received) = 2

\* C9: when broker.startup() fails in a process that is not a worker, the
\* hook raises, startup is aborted without a second attempt, and no HTTP
\* request or websocket connection reaches a handler.
C9_StartupFailureAborts ==
  broker.state = "startup_failed" =>
    /\ ~broker.is_worker_process
    /\ hook.startup = "raised"
    /\ phase \in {"startup", "aborted"}
    /\ broker.startup_calls = 1
    /\ requests = 0 /\ lastResponse.route = "none"
    /\ loggerEvents = <<>>
    /\ \A c \in Conns : ws[c].pc = "none"

C9_Witness ==
  phase = "aborted" /\ broker.state = "startup_failed"

\* C10: with connections and requests interleaved, every reply on a
\* connection is the prefixed text of a frame received on that connection,
\* in order, and the broker changes only in a step of a lifecycle hook,
\* never in a step of a request or websocket handler.
C10_HandlersShareNothing ==
  /\ [](\A c \in Conns :
          /\ \A i \in 1..Len(ws[c].sent) :
               /\ i <= Len(ws[c].received)
               /\ ws[c].sent[i] = "Message text was: " \o ws[c].received[i]
          /\ ws[c].pc = "send" =>
               ws[c].data = ws[c].received[Len(ws[c].received)])
  /\ [][broker' # broker =>
          /\ hook' # hook
          /\ ws' = ws
          /\ UNCHANGED httpVars]_vars

C10_Witness ==
  /\ ws["c1"].sent = <<"Message text was: hi">>
  /\ ws["c2"].sent = <<"Message text was: yo">>
  /\ requests = 2
  /\ broker.state = "started"

====
